---- MODULE Spec2Model ----
(***************************************************************************)
(* ImageDataLayer (src/caffe/layers/image_data_layer.cpp): the manifest    *)
(* parser and cursor initialisation of DataLayerSetUp, ShuffleImages, and  *)
(* load_batch with its two skip-and-retry loops and its label writes.      *)
(*                                                                         *)
(* A manifest is a sequence of lines and a line is a sequence of one-      *)
(* character strings, so that the parser is modelled on characters, as     *)
(* the istringstream code works.  A filename is the sequence of its        *)
(* characters.                                                             *)
(***************************************************************************)
EXTENDS Integers, Sequences, FiniteSets, TLC

\* ------------------------------------------------------------------ bounds
MaxLines == 3
MaxOrderLines == 5
MaxLabelLines == 2
MaxBatchSize == 2
MaxRandSkip == 2
MaxBatches == 2
MaxLiveLines == 2

\* ------------------------------------------------- configuration constants
\* label_separator and label_list_separator of the image_data_param
\* (lines 38-41); the values are those of the documented manifest format.
label_separator == ","
label_list_separator == ";"

NUM_LABEL_LISTS == 2
USE_LABEL == 1
ignore_label_ == 255

\* LABEL_VALUES[0] = USE_LABEL; LABEL_VALUES[1] = ignore_label_ (1-based here)
LABEL_VALUES == <<USE_LABEL, ignore_label_>>

Digits == <<"0", "1", "2", "3", "4", "5", "6", "7", "8", "9">>

IsDigit(c) == \E d \in 1..10 : Digits[d] = c

DigitVal(c) == (CHOOSE d \in 1..10 : Digits[d] = c) - 1

\* std::isspace for the characters a manifest line can hold
IsSpace(c) == c = " "

EOF == "EOF"

\* ------------------------------------------------------ the input stream
\* An istringstream over `line` is [pos, failed]: pos is the next character
\* to read (1-based), failed says that failbit is set.  Reading at the end
\* of the line sets eofbit, after which every operation fails as well, so
\* "pos > Len(line)" stands for eofbit.

\* iss.peek()
Peek(line, st) ==
  IF st.failed \/ st.pos > Len(line) THEN EOF ELSE line[st.pos]

RECURSIVE SkipWhile(_, _, _)
\* first position >= pos whose character is not the character c
SkipWhile(line, pos, c) ==
  IF pos <= Len(line) /\ line[pos] = c
  THEN SkipWhile(line, pos + 1, c)
  ELSE pos

\* while (iss.peek() == ' ') iss.ignore();
SkipBlanks(line, st) ==
  IF st.failed THEN st ELSE [st EXCEPT !.pos = SkipWhile(line, st.pos, " ")]

RECURSIVE TokenEnd(_, _)
\* first position >= pos that ends a whitespace-delimited token
TokenEnd(line, pos) ==
  IF pos <= Len(line) /\ ~IsSpace(line[pos])
  THEN TokenEnd(line, pos + 1)
  ELSE pos

\* iss >> filename: skips whitespace, extracts up to the next whitespace.
\* When nothing is left the extraction fails and `filename` keeps the value
\* it had (the variable is declared outside the getline loop, line 56).
ReadString(line, st, old) ==
  LET b == SkipWhile(line, st.pos, " ")
      e == TokenEnd(line, b)
  IN  IF st.failed \/ b > Len(line)
      THEN [str |-> old, st |-> [pos |-> Len(line) + 1, failed |-> TRUE]]
      ELSE [str |-> SubSeq(line, b, e - 1), st |-> [pos |-> e, failed |-> FALSE]]

RECURSIVE DigitsEnd(_, _)
DigitsEnd(line, pos) ==
  IF pos <= Len(line) /\ IsDigit(line[pos])
  THEN DigitsEnd(line, pos + 1)
  ELSE pos

RECURSIVE DigitsValue(_, _, _, _)
\* value of the decimal digits line[pos .. e-1], most significant first
DigitsValue(line, pos, e, acc) ==
  IF pos >= e THEN acc
  ELSE DigitsValue(line, pos + 1, e, acc * 10 + DigitVal(line[pos]))

\* iss >> label (int): skips whitespace, takes an optional sign and the
\* decimal digits.  No digit: failbit, and nothing more is read from the
\* stream.
ReadInt(line, st) ==
  LET b == SkipWhile(line, st.pos, " ")
      neg == b <= Len(line) /\ line[b] = "-"
      plus == b <= Len(line) /\ line[b] = "+"
      d == IF neg \/ plus THEN b + 1 ELSE b
      e == DigitsEnd(line, d)
  IN  IF st.failed \/ b > Len(line) \/ e = d
      THEN [ok |-> FALSE, val |-> 0, st |-> [pos |-> st.pos, failed |-> TRUE]]
      ELSE [ok |-> TRUE,
            val |-> IF neg THEN 0 - DigitsValue(line, d, e, 0)
                           ELSE DigitsValue(line, d, e, 0),
            st |-> [pos |-> e, failed |-> FALSE]]

\* ------------------------------------------------------ the manifest parser
\* The state of one line's label parse: the stream, labels (the
\* NUM_LABEL_LISTS groups), total_labels, and the two locals that outlive
\* the line, max_label_id and is_multi_label.

\* lines 89-93: the body of "while (iss >> label)" up to the separators
PushLabel(ps, v, label) ==
  [ps EXCEPT !.labels[v] = Append(@, label),
             !.total_labels = @ + 1,
             !.max_label_id = IF label > @ THEN label ELSE @]

\* lines 96-98: if (iss.peek() == label_separator) iss.ignore();
SkipItemSeparator(line, st) ==
  IF Peek(line, st) = label_separator THEN [st EXCEPT !.pos = @ + 1] ELSE st

\* lines 100-103: a label_list_separator after an integer is consumed and
\* ends the group; is_multi_label is not assigned here.
AfterLabelListSeparator(ps, st) ==
  [ps EXCEPT !.st = [st EXCEPT !.pos = @ + 1]]

RECURSIVE LabelLoop(_, _, _)
\* lines 88-104: while (iss >> label) { ... }
LabelLoop(line, ps, v) ==
  LET r == ReadInt(line, ps.st)
  IN  IF ~r.ok THEN [ps EXCEPT !.st = r.st]
      ELSE LET p1 == PushLabel(ps, v, r.val)
               s2 == SkipItemSeparator(line, r.st)
           IN  IF Peek(line, s2) = label_list_separator
               THEN AfterLabelListSeparator(p1, s2)
               ELSE LabelLoop(line, [p1 EXCEPT !.st = s2], v)

\* lines 79-104: one iteration of "for (v = 0; v < labels.size(); ++v)"
LabelGroup(line, ps, v) ==
  LET s1 == SkipBlanks(line, ps.st)
  IN  IF Peek(line, s1) = label_list_separator
      THEN [ps EXCEPT !.st = [s1 EXCEPT !.pos = @ + 1],
                      !.is_multi_label = TRUE]
      ELSE LabelLoop(line, [ps EXCEPT !.st = s1], v)

RECURSIVE LabelGroups(_, _, _)
\* lines 78-105: the groups v = 1 .. NUM_LABEL_LISTS in turn
LabelGroups(line, ps, v) ==
  IF v > NUM_LABEL_LISTS THEN ps
  ELSE LabelGroups(line, LabelGroup(line, ps, v), v + 1)

\* mutant: one label is enough to make the line multi-label
MultiByCountFromOne(total_labels) == total_labels >= 1

\* line 109: the line is multi-label when it holds more than one label
MultiByCount(total_labels) == total_labels > 1

\* lines 64-113: the body of the getline loop for one line.  acc holds
\* lines_, filename, max_label_id and is_multi_label.
ParseLine(line, acc) ==
  LET s0 == [pos |-> 1, failed |-> FALSE]
  IN  IF Peek(line, s0) = "#" THEN acc
      ELSE
        LET f  == ReadString(line, s0, acc.filename)
            ps == LabelGroups(line,
                    [st |-> SkipBlanks(line, f.st),
                     labels |-> [v \in 1..NUM_LABEL_LISTS |-> <<>>],
                     total_labels |-> 0,
                     max_label_id |-> acc.max_label_id,
                     is_multi_label |-> acc.is_multi_label], 1)
        IN  [lines |-> Append(acc.lines, [first |-> f.str, second |-> ps.labels]),
             filename |-> f.str,
             max_label_id |-> ps.max_label_id,
             is_multi_label |-> ps.is_multi_label \/ MultiByCount(ps.total_labels)]

RECURSIVE ParseFrom(_, _, _)
ParseFrom(m, i, acc) ==
  IF i > Len(m) THEN acc ELSE ParseFrom(m, i + 1, ParseLine(m[i], acc))

\* lines 56-114: the whole getline loop over the manifest
ParseManifest(m) ==
  ParseFrom(m, 1, [lines |-> <<>>, filename |-> <<>>,
                   max_label_id |-> 0, is_multi_label |-> FALSE])

\* lines 116-120
NumLabelsPerLine(is_multi, max_id) == IF is_multi THEN max_id + 1 ELSE 1

\* ------------------------------------------------------- manifests checked
LinePool ==
  { <<"a", " ", "1">>,
    <<"b", " ", "0">>,
    <<"a", " ", "3", ",", "7", ";", "2">>,
    <<"b", " ", ";">>,
    <<"a", " ", "2", ";">>,
    <<"b", " ", "1", " ", "2">>,
    <<"b", " ", ";", "0">>,
    <<"a", " ", "-", "1", ",", "1">>,
    <<"a">>,
    <<>>,
    <<"#", "b", " ", "1">>,
    <<" ", "#", "b", " ", "1">>,
    <<"b", " ", "1", ";", "1">>,
    <<"b", " ", "0", ";", "0">> }

RECURSIVE SeqsUpTo(_, _)
\* the sequences over S of length at most n
SeqsUpTo(S, n) ==
  IF n = 0 THEN {<<>>}
  ELSE LET shorter == SeqsUpTo(S, n - 1)
       IN  shorter \cup {Append(q, x) : q \in {r \in shorter : Len(r) = n - 1}, x \in S}

\* lines that differ in filename and in labels, for the cursor's behaviour
CursorPool ==
  { <<"a", " ", "1">>,
    <<"b", " ", "0">> }

\* the filenames whose image the environment may fail to read or decode
Files == { <<"a">>, <<"b">> }

\* what a read of an int outside a vector's storage may return
Garbage == {0, 99}

\* --------------------------------------------------------------- the state
VARIABLES
  manifest,              \* the source file: a sequence of lines
  shuffle,               \* image_data_param().shuffle()
  rand_skip,             \* image_data_param().rand_skip()
  batch_size,            \* image_data_param().batch_size()
  unreadable,            \* filenames for which ReadImageToCVMat returns no data
  lines_,                \* the Dataset: entries [first |-> filename, second |-> groups]
  lines_id_,             \* the cursor, 0-based as in the code
  num_labels_per_line_,
  max_label_id,          \* DataLayerSetUp's local after the getline loop
  is_multi_label,        \* DataLayerSetUp's local after the getline loop
  label_shape,           \* shape of prefetch_[i].label_
  prefetch_data,         \* batch->data_: per slot, the filename of the image in it
  prefetch_label,        \* batch->label_: the flat label buffer
  item_id,               \* load_batch's slot counter
  pc,                    \* "setup", "idle", "infer", "slot", "retry", "fatal", "crashed"
  err,                   \* which check or which access ended the run
  batches,               \* completed load_batch calls
  slotIdx,               \* history: cursor value at which each slot of this batch was filled
  slotEntry,             \* history: the entry whose labels each slot of this batch took
  slotTried,             \* history: per filled slot, the reads made to fill it
  tried,                 \* history: the reads made so far for the slot being filled
  inferTried,            \* history: the reads of this batch's shape-inference loop
  prevIdx,               \* history: slotIdx of the previous batch
  Dataset,               \* history: lines_ as the parser left it, before any shuffle
  skip,                  \* DataLayerSetUp's local: the offset drawn at line 135
  oob                    \* history: the out-of-bounds access made, or "none"

vars == <<manifest, shuffle, rand_skip, batch_size, unreadable, lines_, lines_id_,
          num_labels_per_line_, max_label_id, is_multi_label, label_shape,
          prefetch_data, prefetch_label, item_id, pc, err, batches,
          slotIdx, slotEntry, slotTried, tried, inferTried, prevIdx, Dataset, skip, oob>>

config == <<manifest, shuffle, rand_skip, batch_size, unreadable>>
parsed == <<num_labels_per_line_, max_label_id, is_multi_label, label_shape, skip,
            Dataset>>
history == <<slotIdx, slotEntry, slotTried, tried, inferTried, prevIdx>>

\* ----------------------------------------------------------- collaborators
\* ReadImageToCVMat(root_folder + filename, ...) returns data: the file is
\* readable.  An empty filename names root_folder itself, which is no image.
Readable(filename) == filename /= <<>> /\ filename \notin unreadable

\* l without its i-th element
Without(l, i) == SubSeq(l, 1, i - 1) \o SubSeq(l, i + 1, Len(l))

RECURSIVE PermsOf(_)
\* caffe's shuffle(begin, end, gen): the orders a uniform random permutation
\* of the sequence can take
PermsOf(l) ==
  IF l = <<>> THEN {<<>>}
  ELSE UNION {{<<l[i]>> \o q : q \in PermsOf(Without(l, i))} : i \in 1..Len(l)}

\* mutant: the filenames are shuffled and the label groups stay in place
ShuffleFilenames(l) ==
  {[i \in 1..Len(l) |-> [first |-> q[i].first, second |-> l[i].second]] :
     q \in PermsOf(l)}

\* lines 169-174: shuffle(lines_.begin(), lines_.end(), prefetch_rng); whole
\* entries move, filename and labels together.
ShuffleImages(l) == PermsOf(l)

\* ------------------------------------------------------------- the cursor
\* mutant: the cursor is incremented twice per consumed entry
AdvanceTwice(id, size) == IF id + 2 >= size THEN 0 ELSE id + 2

\* mutant: the retry loops and the slot loop leave the cursor where it is
AdvanceStuck(id, size) == id

\* mutant: the cursor is advanced and never wrapped
AdvanceNoWrap(id, size) == id + 1

\* lines 199-203, 234-238, 274-278: lines_id_++ and the wraparound test
Advance(id, size) == IF id + 1 >= size THEN 0 ELSE id + 1

\* mutant: the Dataset is shuffled at every wraparound, whatever the shuffle
\* parameter says
AfterAdvanceUnasked(l, id) ==
  IF id + 1 >= Len(l) THEN ShuffleImages(l) ELSE {l}

\* lines 204-206, 239-241, 279-281: on wraparound the Dataset is shuffled
\* again when shuffling is enabled
AfterAdvance(l, id) ==
  IF id + 1 >= Len(l) /\ shuffle THEN ShuffleImages(l) ELSE {l}

\* a read of lines_[id] as the history records it
ReadOf(l, id) == [idx |-> id, first |-> l[id + 1].first]

\* the history of a retry loop's failed reads: kept up to two passes over
\* the Dataset and one read more, which is longer than any loop that ends
Record(tr, r) == IF Len(tr) > 2 * Len(lines_) THEN tr ELSE Append(tr, r)

\* -------------------------------------------------------------- the labels
Zeros(n) == [i \in 1..n |-> 0]

\* line 222: caffe_set(batch_size * num_labels_per_line_, Dtype(0), prefetch_label)
ZeroLabels(buf, n) == [i \in 1..Len(buf) |-> IF i <= n THEN 0 ELSE buf[i]]

RECURSIVE WriteGroup(_, _, _, _, _)
\* lines 260-269 for one group: prefetch_label[label_offset + label_id] = value.
\* A write whose index is outside the buffer leaves the buffer as it is.
WriteGroup(buf, label_offset, ids, l, value) ==
  IF l > Len(ids) THEN buf
  ELSE LET at == label_offset + ids[l]
       IN  WriteGroup(IF at >= 0 /\ at < Len(buf)
                      THEN [buf EXCEPT ![at + 1] = value] ELSE buf,
                      label_offset, ids, l + 1, value)

RECURSIVE WriteGroups(_, _, _, _)
\* lines 259-270: the groups in the order v = 0, 1
WriteGroups(buf, label_offset, groups, v) ==
  IF v > NUM_LABEL_LISTS THEN buf
  ELSE WriteGroups(WriteGroup(buf, label_offset, groups[v], 1, LABEL_VALUES[v]),
                   label_offset, groups, v + 1)

\* line 257: batch->label_.offset(item_id) for a [batch_size, width] blob
LabelOffset(item, width) == item * width

\* some label write of the entry falls outside the label buffer
WritesOutside(buf, label_offset, groups) ==
  \E v \in 1..NUM_LABEL_LISTS : \E l \in 1..Len(groups[v]) :
    ~(label_offset + groups[v][l] >= 0 /\ label_offset + groups[v][l] < Len(buf))

\* line 254: the test that selects the single-label write
SingleLabelMode(n) == n = 1

\* ------------------------------------------------------------------- Init
\* The state before DataLayerSetUp: the configuration and the files are
\* given, the layer's fields are not yet set.
InitOf(manifests, shuffles, skips, unreadables) ==
  /\ manifest \in manifests
  /\ shuffle \in shuffles
  /\ rand_skip \in skips
  /\ batch_size \in 1..MaxBatchSize
  /\ unreadable \in unreadables
  /\ lines_ = <<>>
  /\ lines_id_ = 0
  /\ num_labels_per_line_ = 0
  /\ max_label_id = 0
  /\ is_multi_label = FALSE
  /\ label_shape = <<>>
  /\ prefetch_data = <<>>
  /\ prefetch_label = <<>>
  /\ item_id = 0
  /\ pc = "setup"
  /\ err = "none"
  /\ batches = 0
  /\ slotIdx = <<>>
  /\ slotEntry = <<>>
  /\ slotTried = <<>>
  /\ tried = <<>>
  /\ inferTried = <<>>
  /\ prevIdx = <<>>
  /\ Dataset = <<>>
  /\ skip = 0
  /\ oob = "none"

\* --------------------------------------------------------- DataLayerSetUp
\* mutant: the offset is drawn in [0, rand_skip]
SkipChoicesInclusive(rs) == IF rs > 0 THEN 0..rs ELSE {0}

\* line 135: caffe_rng_rand() % rand_skip
SkipChoices(rs) == IF rs > 0 THEN 0..(rs - 1) ELSE {0}

\* line 137: CHECK_GT(lines_.size(), skip)
SkipAccepted(size, sk) == size > sk

\* mutant: the Dataset is shuffled whatever the shuffle parameter says
SetupOrdersAlways(l) == ShuffleImages(l)

\* lines 122-128: the Dataset after the optional setup shuffle
SetupOrders(l) == IF shuffle THEN ShuffleImages(l) ELSE {l}

\* lines 160-166: the shape of every prefetch label blob
LabelShape(bs, n) == <<bs, n>>

\* the run ends in a failed CHECK (LOG(FATAL))
Fatal(where) == pc' = "fatal" /\ err' = where

\* lines 26-167, the whole of DataLayerSetUp
DataLayerSetUp ==
  /\ pc = "setup"
  /\ LET p == ParseManifest(manifest)
         n == NumLabelsPerLine(p.is_multi_label, p.max_label_id)
     IN  /\ max_label_id' = p.max_label_id
         /\ is_multi_label' = p.is_multi_label
         /\ num_labels_per_line_' = n
         /\ Dataset' = p.lines
         /\ \E l \in SetupOrders(p.lines) : \E sk \in SkipChoices(rand_skip) :
              /\ lines_' = l
              /\ skip' = sk
              /\ IF rand_skip > 0 /\ ~SkipAccepted(Len(l), sk)
                 THEN /\ Fatal("rand_skip")
                      /\ lines_id_' = 0
                      /\ UNCHANGED <<label_shape, prefetch_data, prefetch_label, oob>>
                 ELSE /\ lines_id_' = sk
                      /\ IF Len(l) = 0
                         THEN \* lines_[0] of an empty vector is read: the read
                              \* faults, or yields a name that loads no image
                              /\ oob' = "lines"
                              /\ \/ pc' = "crashed" /\ err' = "lines"
                                 \/ Fatal("shape_inference")
                              /\ UNCHANGED <<label_shape, prefetch_data, prefetch_label>>
                         ELSE IF ~Readable(l[sk + 1].first)
                         THEN /\ Fatal("shape_inference")
                              /\ UNCHANGED <<label_shape, prefetch_data, prefetch_label, oob>>
                         ELSE /\ pc' = "idle"
                              /\ label_shape' = LabelShape(batch_size, n)
                              /\ prefetch_data' = [i \in 1..batch_size |-> <<>>]
                              /\ prefetch_label' = Zeros(batch_size * n)
                              /\ UNCHANGED <<err, oob>>
  /\ UNCHANGED <<config, item_id, batches, history>>

\* --------------------------------------------------------------- load_batch
\* mutant: the shape-inference load consumes the entry it read
CursorAfterInferConsumed(id, size) == Advance(id, size)

\* lines 211-226: from the successful shape-inference load to the slot loop
\* lines_id_ is not assigned
CursorAfterInfer(id, size) == id

\* lines 211-222 and 226: the shape is inferred, the labels are set to 0 and
\* the slot loop starts
StartSlots ==
  /\ pc' = "slot"
  /\ item_id' = 0
  /\ prefetch_label' = ZeroLabels(prefetch_label, batch_size * num_labels_per_line_)

\* lines 178-196 (and 211-226 when the first read succeeds)
LoadBatchStart ==
  /\ pc = "idle"
  /\ batches < MaxBatches
  /\ prevIdx' = slotIdx
  /\ slotIdx' = <<>>
  /\ slotEntry' = <<>>
  /\ slotTried' = <<>>
  /\ tried' = <<>>
  /\ inferTried' = <<ReadOf(lines_, lines_id_)>>
  /\ IF Readable(lines_[lines_id_ + 1].first)
     THEN /\ StartSlots
          /\ lines_id_' = CursorAfterInfer(lines_id_, Len(lines_))
     ELSE pc' = "infer" /\ UNCHANGED <<item_id, prefetch_label, lines_id_>>
  /\ UNCHANGED <<config, parsed, lines_, prefetch_data, err, batches, oob>>

\* lines 197-210, one iteration of the shape-inference retry loop (and
\* 211-226 when its read succeeds)
InferRetry ==
  /\ pc = "infer"
  /\ \E l \in AfterAdvance(lines_, lines_id_) :
       LET id == Advance(lines_id_, Len(lines_))
       IN  /\ lines_' = l
           /\ inferTried' = Record(inferTried, ReadOf(l, id))
           /\ IF Readable(l[id + 1].first)
              THEN /\ StartSlots
                   /\ lines_id_' = CursorAfterInfer(id, Len(l))
              ELSE /\ lines_id_' = id
                   /\ UNCHANGED <<pc, item_id, prefetch_label>>
  /\ UNCHANGED <<config, parsed, prefetch_data, err, batches, oob,
                 slotIdx, slotEntry, slotTried, tried, prevIdx>>

\* mutant: the labels are taken from the entry before the one that was read
LabelSourceBefore(l, id) == l[IF id = 0 THEN Len(l) ELSE id]

\* the entry whose labels a slot takes when its image came from lines_[id]
LabelSource(l, id) == l[id + 1]

\* lines 246-283 once the labels are written: the image is in the slot, the
\* cursor moves on, and the batch ends after the last slot
SlotDone(l, id, tr, labels, access) ==
  /\ prefetch_data' = [prefetch_data EXCEPT ![item_id + 1] = l[id + 1].first]
  /\ prefetch_label' = labels
  /\ slotIdx' = Append(slotIdx, id)
  /\ slotEntry' = Append(slotEntry, LabelSource(l, id))
  /\ slotTried' = Append(slotTried, tr)
  /\ tried' = <<>>
  /\ lines_' \in AfterAdvance(l, id)
  /\ lines_id_' = Advance(id, Len(l))
  /\ item_id' = item_id + 1
  /\ pc' = IF item_id + 1 < batch_size THEN "slot" ELSE "idle"
  /\ batches' = IF item_id + 1 < batch_size THEN batches ELSE batches + 1
  /\ oob' = IF access = "none" THEN oob ELSE access
  /\ UNCHANGED <<config, parsed, err, inferTried, prevIdx>>

\* the label access faults: the prefetch thread dies with the image already
\* transformed into the slot
SlotCrash(l, id, tr, access) ==
  /\ pc' = "crashed"
  /\ err' = access
  /\ oob' = access
  /\ prefetch_data' = [prefetch_data EXCEPT ![item_id + 1] = l[id + 1].first]
  /\ lines_' = l
  /\ lines_id_' = id
  /\ tried' = tr
  /\ UNCHANGED <<config, parsed, prefetch_label, item_id, batches,
                 slotIdx, slotEntry, slotTried, inferTried, prevIdx>>

\* lines 246-283: the slot's image was read from lines_[id]
FinishSlot(l, id, tr) ==
  LET e == LabelSource(l, id)
  IN  IF SingleLabelMode(num_labels_per_line_)
      THEN IF Len(e.second[1]) > 0
           THEN SlotDone(l, id, tr,
                         [prefetch_label EXCEPT ![item_id + 1] = e.second[1][1]], "none")
           ELSE \* line 255 reads second[0][0] of an empty vector
                \/ SlotCrash(l, id, tr, "label_read")
                \/ \E g \in Garbage :
                     SlotDone(l, id, tr,
                              [prefetch_label EXCEPT ![item_id + 1] = g], "label_read")
      ELSE LET off == LabelOffset(item_id, num_labels_per_line_)
               w == WriteGroups(prefetch_label, off, e.second, 1)
           IN  IF WritesOutside(prefetch_label, off, e.second)
               THEN \* lines 262 and 268 touch memory before the buffer
                    \/ SlotCrash(l, id, tr, "label_write")
                    \/ SlotDone(l, id, tr, w, "label_write")
               ELSE SlotDone(l, id, tr, w, "none")

\* lines 226-231 (and 246-283 when the read succeeds)
SlotRead ==
  /\ pc = "slot"
  /\ IF ~(Len(lines_) > lines_id_)
     THEN \* line 229: CHECK_GT(lines_size, lines_id_)
          /\ Fatal("cursor")
          /\ UNCHANGED <<config, parsed, lines_, lines_id_, prefetch_data,
                         prefetch_label, item_id, batches, history, oob>>
     ELSE IF Readable(lines_[lines_id_ + 1].first)
     THEN FinishSlot(lines_, lines_id_, <<ReadOf(lines_, lines_id_)>>)
     ELSE /\ pc' = "retry"
          /\ tried' = <<ReadOf(lines_, lines_id_)>>
          /\ UNCHANGED <<config, parsed, lines_, lines_id_, prefetch_data,
                         prefetch_label, item_id, err, batches, oob,
                         slotIdx, slotEntry, slotTried, inferTried, prevIdx>>

\* lines 232-245, one iteration of the slot's retry loop (and 246-283 when
\* its read succeeds)
SlotRetry ==
  /\ pc = "retry"
  /\ \E l \in AfterAdvance(lines_, lines_id_) :
       LET id == Advance(lines_id_, Len(lines_))
       IN  IF Readable(l[id + 1].first)
           THEN FinishSlot(l, id, Append(tried, ReadOf(l, id)))
           ELSE /\ lines_' = l
                /\ lines_id_' = id
                /\ tried' = Record(tried, ReadOf(l, id))
                /\ UNCHANGED <<config, parsed, prefetch_data, prefetch_label,
                               item_id, pc, err, batches, oob,
                               slotIdx, slotEntry, slotTried, inferTried, prevIdx>>

Next ==
  \/ DataLayerSetUp
  \/ LoadBatchStart
  \/ InferRetry
  \/ SlotRead
  \/ SlotRetry

\* every configuration over the manifests of CursorPool, with one file that
\* may be unreadable (the two filenames of CursorPool are interchangeable)
Init ==
  InitOf(SeqsUpTo(CursorPool, MaxLines), BOOLEAN, 0..MaxRandSkip,
         SUBSET {<<"b">>})

Spec == Init /\ [][Next]_vars

\* ------------------------------------------------------- the file system
\* the files that may be removed or damaged while the layer runs
Perishable == { <<"b">> }

\* an image file that could be read can be read no more, from now on
FileLost ==
  /\ pc \in {"idle", "infer", "slot", "retry"}
  /\ \E f \in Perishable \ unreadable : unreadable' = unreadable \cup {f}
  /\ UNCHANGED <<manifest, shuffle, rand_skip, batch_size, lines_, lines_id_,
                 parsed, prefetch_data, prefetch_label, item_id, pc, err,
                 batches, history, oob>>

NextLive ==
  \/ Next
  \/ FileLost

\* every file readable at setup, rand_skip = 0
InitLive ==
  InitOf(SeqsUpTo(CursorPool, MaxLiveLines), BOOLEAN, {0}, {{}})

\* the prefetch thread runs load_batch without pause (InternalThreadEntry):
\* each of its steps is taken when it can be
SpecLive ==
  /\ InitLive
  /\ [][NextLive]_vars
  /\ WF_vars(LoadBatchStart)
  /\ WF_vars(InferRetry)
  /\ WF_vars(SlotRead)
  /\ WF_vars(SlotRetry)

\* shuffling disabled, over longer manifests and every pattern of unreadable
\* files
InitOrder ==
  InitOf(SeqsUpTo(CursorPool, MaxOrderLines), {FALSE}, 0..MaxRandSkip, SUBSET Files)

SpecOrder == InitOrder /\ [][Next]_vars

\* every manifest of LinePool, with shuffling disabled, rand_skip = 0 and one
\* file that may be unreadable
InitLabels ==
  InitOf(SeqsUpTo(LinePool, MaxLabelLines), {FALSE}, {0}, SUBSET {<<"b">>})

SpecLabels == InitLabels /\ [][Next]_vars

\* ============================================================== properties
\* DataLayerSetUp returned: the prefetch thread may run load_batch
SetupSucceeded ==
  \/ pc \in {"idle", "infer", "slot", "retry"}
  \/ pc = "crashed" /\ err /= "lines"

\* every file the Dataset names can be read
AllReadable == \A i \in 1..Len(lines_) : Readable(lines_[i].first)

\* entries consumed by the batches before the one whose slots slotIdx lists
ConsumedBefore ==
  IF pc = "idle" /\ batches > 0 THEN (batches - 1) * batch_size
  ELSE batches * batch_size

\* C1: with shuffle disabled, rand_skip = 0 and every file readable, the
\* n-th entry placed into a batch slot (n = 0, 1, ...) is Dataset[n mod len],
\* image and labels alike, and the cursor stands at the number of entries
\* consumed so far modulo len: neither setup's nor load_batch's
\* shape-inference load consumes an entry.
C1_OriginalOrderWithWraparound ==
  (SetupSucceeded /\ ~shuffle /\ rand_skip = 0 /\ AllReadable) =>
    /\ lines_ = Dataset
    /\ \A i \in 1..Len(slotIdx) :
         LET n == (ConsumedBefore + i - 1) % Len(Dataset)
         IN  /\ slotIdx[i] = n
             /\ slotEntry[i] = Dataset[n + 1]
             /\ prefetch_data[i] = Dataset[n + 1].first
    /\ pc /= "crashed" =>
         lines_id_ = (ConsumedBefore + Len(slotIdx)) % Len(Dataset)

\* C1 witness: a Dataset of 3 entries read by two batches of 2; the fourth
\* entry consumed is Dataset[0] again.
C1_Witness ==
  /\ ~shuffle /\ rand_skip = 0 /\ AllReadable
  /\ pc = "idle" /\ batches = 2 /\ batch_size = 2
  /\ Len(lines_) = 3
  /\ prevIdx = <<0, 1>>
  /\ slotIdx = <<2, 0>>
  /\ lines_id_ = 1

\* C4: after a successful setup the cursor is an index of the Dataset in
\* every state, and the CHECK_GT of line 229 never fails.
C4_CursorInRange ==
  /\ SetupSucceeded => (0 <= lines_id_ /\ lines_id_ < Len(lines_))
  /\ err /= "cursor"

\* C4 witness: with shuffle on, a slot's retry loop has wrapped from the last
\* index to 0 at an unreadable entry.
C4_Witness ==
  /\ pc = "retry" /\ shuffle
  /\ Len(tried) >= 2
  /\ tried[Len(tried) - 1].idx = Len(lines_) - 1
  /\ lines_id_ = 0

\* the reads of one retry sequence follow each other in cursor order
Consecutive(tr) ==
  \A j \in 1..(Len(tr) - 1) : tr[j + 1].idx = (tr[j].idx + 1) % Len(lines_)

\* every read of tr but the last one failed
SkipsUnreadable(tr) == \A j \in 1..(Len(tr) - 1) : ~Readable(tr[j].first)

RECURSIVE FirstReadableFrom(_, _, _)
\* the first index at or after id, in cyclic order, whose file is readable
\* (id itself after n unsuccessful steps)
FirstReadableFrom(l, id, n) ==
  IF n = 0 \/ Readable(l[id + 1].first) THEN id
  ELSE FirstReadableFrom(l, (id + 1) % Len(l), n - 1)

\* C2 (amended): every filled slot holds the image and the labels of one
\* readable entry, which is the first readable entry at or after the entry
\* the slot's first read met, in cursor order; every entry skipped on the
\* way is unreadable and leaves nothing in the slot; a completed batch has
\* batch_size slots; and no fatal error is raised once load_batch has begun.
C2_SkipToNextReadable ==
  /\ SetupSucceeded =>
       /\ \A i \in 1..Len(slotTried) :
            LET tr == slotTried[i]
            IN  /\ SkipsUnreadable(tr)
                /\ Consecutive(tr)
                /\ tr[Len(tr)].idx = slotIdx[i]
                /\ Readable(prefetch_data[i])
                /\ prefetch_data[i] = tr[Len(tr)].first
                /\ slotEntry[i].first = prefetch_data[i]
                /\ ~shuffle =>
                     /\ slotIdx[i] = FirstReadableFrom(lines_, tr[1].idx, Len(lines_))
                     /\ slotEntry[i] = lines_[slotIdx[i] + 1]
       /\ SkipsUnreadable(inferTried) /\ Consecutive(inferTried)
       /\ (pc = "idle" /\ batches > 0) => Len(slotIdx) = batch_size
  /\ pc = "fatal" => (batches = 0 /\ inferTried = <<>>)

\* C2 as stated, in the plainest setting (no shuffle): whenever a slot's load
\* skips an unreadable entry k, the slot holds the entry that follows k in
\* cursor order.
C2_NextEntryInPlace ==
  (SetupSucceeded /\ ~shuffle) =>
    \A i \in 1..Len(slotTried) :
      \A j \in 1..(Len(slotTried[i]) - 1) :
        slotIdx[i] = (slotTried[i][j].idx + 1) % Len(lines_)

\* C2 witness: a completed batch one of whose slots skipped an unreadable
\* entry, without shuffle.
C2_Witness ==
  /\ pc = "idle" /\ batches > 0 /\ ~shuffle
  /\ \E i \in 1..Len(slotTried) :
       /\ Len(slotTried[i]) >= 2
       /\ ~Readable(slotTried[i][1].first)
       /\ slotIdx[i] = (slotTried[i][1].idx + 1) % Len(lines_)

\* the indices follow each other modulo the Dataset's length
Contiguous(idx) ==
  \A i \in 1..(Len(idx) - 1) : idx[i + 1] = (idx[i] + 1) % Len(lines_)

\* two batches in immediate succession took disjoint contiguous index
\* ranges, the second starting where the first ended
TwoDisjointRanges ==
  /\ Contiguous(prevIdx)
  /\ Contiguous(slotIdx)
  /\ \A i \in 1..Len(prevIdx) : \A j \in 1..Len(slotIdx) : prevIdx[i] /= slotIdx[j]
  /\ slotIdx[1] = (prevIdx[Len(prevIdx)] + 1) % Len(lines_)

TwoBatchesDone == pc = "idle" /\ batches >= 2

Count(l, e) == Cardinality({i \in 1..Len(l) : l[i] = e})

\* a and b hold the same entries the same number of times
SameEntries(a, b) ==
  /\ Len(a) = Len(b)
  /\ \A i \in 1..Len(a) : Count(a, a[i]) = Count(b, a[i])

C10_EmptyDatasetFatal ==
  (pc /= "setup" /\ lines_ = <<>>) =>
    (pc = "fatal" /\ err = "shape_inference" /\ oob = "none")

\* the line is skipped as a comment (line 67)
IsComment(line) == Len(line) > 0 /\ line[1] = "#"

\* the line holds a label_list_separator
HasListSeparator(line) == \E i \in 1..Len(line) : line[i] = label_list_separator

\* the integers written on the line after its filename: the runs of digits
LabelTokens(line) ==
  LET from == TokenEnd(line, SkipWhile(line, 1, " "))
  IN  Cardinality({i \in from..Len(line) :
                     IsDigit(line[i]) /\ (i = 1 \/ ~IsDigit(line[i - 1]))})

\* some line of the manifest carries a multi-label marker
HasMarker ==
  \E i \in 1..Len(manifest) :
    /\ ~IsComment(manifest[i])
    /\ HasListSeparator(manifest[i]) \/ LabelTokens(manifest[i]) >= 2

\* the label ids stored in the Dataset
LabelIds ==
  UNION {{lines_[i].second[v][l] : l \in 1..Len(lines_[i].second[v])} :
           i \in 1..Len(lines_), v \in 1..NUM_LABEL_LISTS}

\* the largest label id seen (0 when there is none above 0)
MaxSeen == CHOOSE x \in LabelIds \cup {0} : \A y \in LabelIds \cup {0} : y <= x

\* C6 as stated: a manifest with a label_list_separator on some line, or with
\* 2 or more labels on some line, is marked multi-label and
\* num_labels_per_line is the largest label id seen plus 1.
C6_MarkerMakesMultiLabel ==
  (pc /= "setup" /\ HasMarker) =>
    (is_multi_label /\ num_labels_per_line_ = MaxSeen + 1)

\* C7: a manifest without multi-label marker (no label_list_separator and at
\* most one label on every line) gives num_labels_per_line = 1, and after a
\* successful setup the prefetch label blob has shape [batch_size, 1].
C7_SingleLabelShape ==
  /\ (pc /= "setup" /\ ~HasMarker) =>
       (~is_multi_label /\ num_labels_per_line_ = 1)
  /\ (SetupSucceeded /\ ~HasMarker) =>
       (label_shape = <<batch_size, 1>> /\ Len(prefetch_label) = batch_size)

\* C7 witness: a manifest of single labels, the largest of them 1, read by
\* two batches of 2.
C7_Witness ==
  /\ ~HasMarker /\ max_label_id = 1
  /\ pc = "idle" /\ batches = 2 /\ batch_size = 2
  /\ label_shape = <<2, 1>>
  /\ prefetch_label = <<1, 0>>

\* the ids of one label group
IdsOf(group) == {group[l] : l \in 1..Len(group)}

\* the row the claim expects for an entry: use at group 0's ids, ignore at
\* group 1's ids, 0 elsewhere
ExpectedCell(e, id) ==
  IF id \in IdsOf(e.second[1]) THEN USE_LABEL
  ELSE IF id \in IdsOf(e.second[2]) THEN ignore_label_
  ELSE 0

\* C8 as stated: in multi-label mode, after load_batch the label row of every
\* slot whose entry has disjoint groups holds the use sentinel exactly at the
\* ids of group 0, the ignore sentinel exactly at the ids of group 1 and 0
\* elsewhere.  (Stated for the runs in which every label access stayed
\* inside its vector and inside the label buffer.)
C8_LabelRows ==
  (pc = "idle" /\ batches > 0 /\ is_multi_label /\ oob = "none") =>
    \A i \in 1..batch_size :
      (IdsOf(slotEntry[i].second[1]) \cap IdsOf(slotEntry[i].second[2]) = {}) =>
        \A id \in 0..(num_labels_per_line_ - 1) :
          prefetch_label[(i - 1) * num_labels_per_line_ + id + 1]
            = ExpectedCell(slotEntry[i], id)

\* C11 as stated: an unreadable or undecodable image is never a fatal error:
\* at setup's shape-inference load, as at the loads of load_batch, a failed
\* load of a Dataset entry does not end the run in a failed CHECK.
C11_UnreadableNeverFatal ==
  (pc = "fatal" /\ lines_ /= <<>>) => err /= "shape_inference"

\* load_batch is running
Running == pc \in {"infer", "slot", "retry"}

\* some entry of the Dataset is readable and stays so
SomePersistent ==
  \E i \in 1..Len(lines_) :
    Readable(lines_[i].first) /\ lines_[i].first \notin Perishable

\* no entry of the Dataset is readable
NoneReadable == \A i \in 1..Len(lines_) : ~Readable(lines_[i].first)

\* from each wraparound on, the loop reads at most one pass over the Dataset
OnePassAfterWrap(tr) ==
  \A j \in 2..Len(tr) : tr[j].idx = 0 => Len(tr) - j + 1 <= Len(lines_)

\* C12: when some entry of the Dataset stays readable, every load_batch call
\* that has begun returns with all batch_size slots filled, with shuffle on
\* or off, and each of its retry loops ends within one pass over the Dataset
\* after a wraparound; when no entry is readable a running load_batch never
\* returns, so the prefetch thread never gets between two batches.
C12_TerminatesIffReadable ==
  /\ \A n \in 0..(MaxBatches - 1) :
       (Running /\ batches = n /\ SomePersistent)
         ~> (pc = "idle" /\ batches = n + 1 /\ Len(slotIdx) = batch_size)
  /\ [](SomePersistent =>
         /\ OnePassAfterWrap(tried)
         /\ OnePassAfterWrap(inferTried)
         /\ \A i \in 1..Len(slotTried) : OnePassAfterWrap(slotTried[i]))
  /\ [][(Running /\ NoneReadable) => (Running' /\ batches' = batches)]_vars

\* C12 witness: with shuffle on, a batch is complete one of whose slots was
\* filled after its retry loop wrapped around and skipped a further entry.
C12_Witness ==
  /\ pc = "idle" /\ batches > 0 /\ shuffle
  /\ \E i \in 1..Len(slotTried) : \E j \in 2..(Len(slotTried[i]) - 1) :
       slotTried[i][j].idx = 0

\* the first non-space character of the line is '#'
FirstNonSpaceIsHash(line) ==
  LET b == SkipWhile(line, 1, " ") IN b <= Len(line) /\ line[b] = "#"

\* the manifest without the lines whose first non-space character is '#'
WithoutComments(m) == SelectSeq(m, LAMBDA line : ~FirstNonSpaceIsHash(line))

\* C13 as stated: every line whose first non-space character is '#', also
\* when spaces precede the '#', is skipped: the Dataset, max_label_id and the
\* multi-label flag are those of the manifest without these lines.
C13_CommentsSkipped ==
  pc /= "setup" =>
    LET p == ParseManifest(WithoutComments(manifest))
    IN  /\ Dataset = p.lines
        /\ max_label_id = p.max_label_id
        /\ is_multi_label = p.is_multi_label

\* C14 as stated: every label id the parser stores is non-negative, in
\* multi-label mode every id is below num_labels_per_line, and no label
\* write of load_batch falls outside the row of its slot.
C14_LabelIdsInRow ==
  pc /= "setup" =>
    /\ \A id \in LabelIds :
         id >= 0 /\ (is_multi_label => id < num_labels_per_line_)
    /\ oob /= "label_write"

\* the cursor wrapped from the last index to 0 in this step: a step advances
\* the cursor once (a failed load, or a slot filled at its first load) or
\* twice (a slot filled by a retry), so the cursor wrapped exactly when it
\* ends at or before the index it started from
WrappedInStep == lines_id_' <= lines_id_

\* C15: after setup no step changes num_labels_per_line; with shuffle
\* disabled no step of load_batch changes the Dataset; with shuffle enabled
\* the Dataset changes only in a step that wraps the cursor from the last
\* index to 0, and then into a permutation of itself.
C15_DatasetFrame ==
  [][pc /= "setup" =>
       /\ num_labels_per_line_' = num_labels_per_line_
       /\ ~shuffle => lines_' = lines_
       /\ lines_' /= lines_ =>
            /\ shuffle
            /\ WrappedInStep
            /\ SameEntries(lines_', lines_)]_vars

\* C15 witness: with shuffle on, two batches of 2 have read a Dataset of 3
\* entries, wrapping once, and the Dataset is in another order than the
\* parser's.
C15_Witness ==
  /\ shuffle /\ pc = "idle" /\ batches = 2
  /\ prevIdx = <<0, 1>> /\ slotIdx = <<2, 0>>
  /\ lines_ /= Dataset
  /\ num_labels_per_line_ = 1

\* C16 as stated: when setup leaves the layer in single-label mode
\* (num_labels_per_line = 1) every entry of the Dataset has exactly one label
\* in group 0 and none in group 1, and the single-label write of load_batch
\* never reads a label that is not there.
C16_SingleLabelEntries ==
  (SetupSucceeded /\ SingleLabelMode(num_labels_per_line_)) =>
    /\ \A i \in 1..Len(lines_) :
         Len(lines_[i].second[1]) = 1 /\ Len(lines_[i].second[2]) = 0
    /\ oob /= "label_read"

\* the slot's entry has a label id in both of its groups
Conflicting(e) == IdsOf(e.second[1]) \cap IdsOf(e.second[2]) /= {}

\* the cell of a label row when group 1 is written after group 0
CellIgnoreLast(e, id) ==
  IF id \in IdsOf(e.second[2]) THEN ignore_label_
  ELSE IF id \in IdsOf(e.second[1]) THEN USE_LABEL
  ELSE 0

\* C17 as stated: in multi-label mode, when a label id is in group 0 and in
\* group 1 of a slot's entry, load_batch completes and the slot's cell for
\* that id holds the ignore sentinel, and every other cell of the row is what
\* it would be without the conflict.  (Stated for the runs in which every
\* label access stayed inside its vector and inside the label buffer.)
C17_IgnoreWinsConflict ==
  (pc = "idle" /\ batches > 0 /\ is_multi_label /\ oob = "none") =>
    \A i \in 1..batch_size :
      Conflicting(slotEntry[i]) =>
        \A id \in 0..(num_labels_per_line_ - 1) :
          prefetch_label[(i - 1) * num_labels_per_line_ + id + 1]
            = CellIgnoreLast(slotEntry[i], id)

\* C18: in every load_batch the entry whose image gave the batch its shape
\* is the entry placed in slot 0.  When the slot loop starts, the cursor is
\* on the entry of the last (the successful) shape-inference read, in a
\* Dataset that still holds that entry there, also after a retry loop that
\* skipped entries or wrapped and re-shuffled; slot 0 is filled by its first
\* read, of that index and that entry.
C18_ShapeEntryIsSlot0 ==
  (SetupSucceeded /\ inferTried /= <<>>) =>
    LET r == inferTried[Len(inferTried)]
    IN  /\ (pc = "slot" /\ item_id = 0) =>
             /\ lines_id_ = r.idx
             /\ lines_[r.idx + 1].first = r.first
             /\ Readable(r.first)
        /\ Len(slotIdx) >= 1 =>
             /\ slotTried[1] = <<r>>
             /\ slotIdx[1] = r.idx
             /\ slotEntry[1].first = r.first
             /\ prefetch_data[1] = r.first

\* C18 witness: with shuffle on, the second batch is complete; its
\* shape-inference loop skipped entries and wrapped around before it found
\* the entry that is in slot 0.
C18_Witness ==
  /\ shuffle /\ pc = "idle" /\ batches = 2
  /\ \E j \in 2..(Len(inferTried) - 1) : inferTried[j].idx = 0
  /\ slotIdx[1] = inferTried[Len(inferTried)].idx
  /\ prefetch_data[1] = inferTried[Len(inferTried)].first

====
